---- MODULE Spec2Model ----
(***************************************************************************)
(* A model of VocabularyManager (concerto-vocabulary): the registry of     *)
(* vocabularies keyed by namespace/locale, the BCP-47 locale matching of   *)
(* findVocabulary, the term lookup of getTerm and validate.                *)
(*                                                                         *)
(* JavaScript strings are sequences of one-character strings, so that      *)
(* toLowerCase, lastIndexOf, substring and template concatenation are      *)
(* computed and not assumed.  Every JavaScript value is a record with a    *)
(* kind field.  this.vocabularies, a plain object, is the sequence of its  *)
(* own properties in insertion order.                                      *)
(***************************************************************************)
EXTENDS Integers, Sequences, FiniteSets, TLC

VARIABLES vocabularies, last

vars == <<vocabularies, last>>

\* The largest number of vocabularies a store of the model holds.
MaxEntries == 2

-----------------------------------------------------------------------------
(* JavaScript values *)

Undefined == [kind |-> "undefined"]
Null == [kind |-> "null"]
Str(s) == [kind |-> "string", chars |-> s]

\* ToBoolean, as used by if(x), !x and Array.prototype.find's result test
Truthy(x) ==
    CASE x.kind = "undefined" -> FALSE
      [] x.kind = "null" -> FALSE
      [] x.kind = "string" -> Len(x.chars) > 0
      [] OTHER -> TRUE

LowerOf(c) ==
    CASE c = "E" -> "e"
      [] c = "U" -> "u"
      [] c = "X" -> "x"
      [] OTHER -> c

\* String.prototype.toLowerCase
RECURSIVE toLowerCase(_)
toLowerCase(s) ==
    IF s = <<>> THEN <<>> ELSE <<LowerOf(Head(s))>> \o toLowerCase(Tail(s))

\* String.prototype.lastIndexOf(c): the 0-based index of the last c, or -1
RECURSIVE lastIndexOf(_, _)
lastIndexOf(s, c) ==
    IF s = <<>> THEN -1
    ELSE IF s[Len(s)] = c THEN Len(s) - 1
    ELSE lastIndexOf(SubSeq(s, 1, Len(s) - 1), c)

\* String.prototype.substring(0, pos)
substring(s, pos) == SubSeq(s, 1, pos)

\* the template literal `${a}/${b}`
Template(a, b) == a \o <<"/">> \o b

-----------------------------------------------------------------------------
(* plain objects used as maps: own properties in insertion order *)

HasKey(obj, k) == \E i \in 1..Len(obj) : obj[i].key = k

\* obj[k] = v : replaces the value in place, or appends a new property
ObjectSet(obj, k, v) ==
    IF HasKey(obj, k)
    THEN [i \in 1..Len(obj) |-> IF obj[i].key = k THEN [key |-> k, value |-> v] ELSE obj[i]]
    ELSE Append(obj, [key |-> k, value |-> v])

\* delete obj[k]
ObjectDelete(obj, k) == SelectSeq(obj, LAMBDA p : p.key # k)

\* Object.values(obj)
RECURSIVE ObjectValues(_)
ObjectValues(obj) ==
    IF obj = <<>> THEN <<>> ELSE <<Head(obj).value>> \o ObjectValues(Tail(obj))

-----------------------------------------------------------------------------
(* YAML and the Vocabulary class, the collaborators of the manager *)

\* The text of a vocabulary document.
Serialize(doc) == Str(<<doc.namespace, doc.locale, doc.declarations>>)

\* YAML.parse(contents)
YAMLparse(contents) ==
    [namespace |-> contents.chars[1],
     locale |-> contents.chars[2],
     declarations |-> contents.chars[3]]

\* new Vocabulary(vocabularyManager, voc)
Vocabulary(voc) == [kind |-> "vocabulary", content |-> voc]

getNamespace(v) == v.content.namespace

\* the locale of a vocabulary is normalised to lower case
getLocale(v) == toLowerCase(v.content.locale)

getIdentifier(v) == Template(getNamespace(v), getLocale(v))

\* Vocabulary.getTerm(declarationName, propertyName): the term registered for
\* the declaration, or for the property of the declaration, or null
VocGetTerm(v, declarationName, propertyName) ==
    LET decls == SelectSeq(v.content.declarations, LAMBDA d : d.name = declarationName)
    IN  IF decls = <<>> THEN Null
        ELSE IF ~Truthy(propertyName) THEN Str(decls[1].term)
        ELSE LET props == SelectSeq(decls[1].properties,
                                    LAMBDA q : q.name = propertyName.chars)
             IN  IF props = <<>> THEN Null ELSE Str(props[1].term)

\* Vocabulary.validate(modelFile): the declarations of the model the vocabulary
\* has no term for, and the declarations of the vocabulary the model lacks
VocValidate(v, modelFile) ==
    [missingTerms |->
        SelectSeq(modelFile.declarations,
                  LAMBDA n : \A i \in 1..Len(v.content.declarations) :
                                 v.content.declarations[i].name # n),
     additionalTerms |->
        LET extra == SelectSeq(v.content.declarations,
                               LAMBDA d : \A i \in 1..Len(modelFile.declarations) :
                                              modelFile.declarations[i] # d.name)
        IN  [i \in 1..Len(extra) |-> extra[i].name]]

\* ModelManager.getModelFiles()
getModelFiles(modelManager) == modelManager

\* ModelManager.getModelFile(namespace): the model file of the namespace or null
getModelFile(modelManager, namespace) ==
    LET found == SelectSeq(modelManager, LAMBDA m : m.namespace = namespace)
    IN  IF found = <<>> THEN Null ELSE found[1]

-----------------------------------------------------------------------------
(* VocabularyManager *)

Ok == "none"
InvalidArgument == "Vocabulary contents must be specified"
DuplicateEntry == "Vocabulary has already been added."

\* constructor
NewVocabularies == <<>>

\* a clear() that resets nothing
clear_nothing(vocs) == vocs

\* clear()
clear(vocs) == <<>>

\* a removeVocabulary that deletes every vocabulary of the namespace
removeVocabulary_wholeNamespace(vocs, namespace, locale) ==
    SelectSeq(vocs, LAMBDA p : getNamespace(p.value) # namespace)

\* removeVocabulary(namespace, locale)
removeVocabulary(vocs, namespace, locale) ==
    ObjectDelete(vocs, Template(namespace, locale))

\* an addVocabulary that registers under the locale as written in the document
addVocabulary_localeAsWritten(vocs, contents) ==
    IF ~Truthy(contents)
    THEN [vocabularies |-> vocs, error |-> InvalidArgument]
    ELSE LET voc == Vocabulary(YAMLparse(contents))
             existing == SelectSeq(ObjectValues(vocs),
                                   LAMBDA v : getIdentifier(v) = getIdentifier(voc))
         IN  IF existing # <<>>
             THEN [vocabularies |-> vocs, error |-> DuplicateEntry]
             ELSE [vocabularies |->
                       ObjectSet(vocs, Template(voc.content.namespace, voc.content.locale),
                                 voc),
                   error |-> Ok]

\* an addVocabulary that registers before it looks for an existing entry
addVocabulary_registersFirst(vocs, contents) ==
    IF ~Truthy(contents)
    THEN [vocabularies |-> vocs, error |-> InvalidArgument]
    ELSE LET voc == Vocabulary(YAMLparse(contents))
             existing == SelectSeq(ObjectValues(vocs),
                                   LAMBDA v : getIdentifier(v) = getIdentifier(voc))
         IN  [vocabularies |-> ObjectSet(vocs, getIdentifier(voc), voc),
              error |-> IF existing # <<>> THEN DuplicateEntry ELSE Ok]

\* addVocabulary(contents): the store after the call and the error thrown
addVocabulary(vocs, contents) ==
    IF ~Truthy(contents)
    THEN [vocabularies |-> vocs, error |-> InvalidArgument]
    ELSE LET voc == Vocabulary(YAMLparse(contents))
             existing == SelectSeq(ObjectValues(vocs),
                                   LAMBDA v : getIdentifier(v) = getIdentifier(voc))
         IN  IF existing # <<>>
             THEN [vocabularies |-> vocs, error |-> DuplicateEntry]
             ELSE [vocabularies |-> ObjectSet(vocs, getIdentifier(voc), voc),
                   error |-> Ok]

\* the string 'lookup'
Lookup == <<"l", "o", "o", "k", "u", "p">>

\* options?.localeMatcher
LocaleMatcher(options) ==
    IF options.kind \in {"undefined", "null"} THEN Undefined
    ELSE IF "localeMatcher" \in DOMAIN options THEN options.localeMatcher
    ELSE Undefined

\* the do ... while loop of findVocabulary; attempts counts its iterations
RECURSIVE findVocabularyLoop(_, _, _, _)
findVocabularyLoop(locale, vocs, options, attempts) ==
    LET found == SelectSeq(vocs, LAMBDA v : getLocale(v) = locale)
    IN  IF found # <<>>
        THEN [result |-> found[1], attempts |-> attempts]
        ELSE IF LocaleMatcher(options) # Str(Lookup)
        THEN [result |-> Null, attempts |-> attempts]
        ELSE LET pos == lastIndexOf(locale, "-")
             IN  IF pos = -1
                 THEN [result |-> Null, attempts |-> attempts]
                 ELSE findVocabularyLoop(substring(locale, pos), vocs, options,
                                         attempts + 1)

\* a findVocabulary that truncates at the first '-'
RECURSIVE findVocabularyLoop_firstDash(_, _, _, _)
findVocabularyLoop_firstDash(locale, vocs, options, attempts) ==
    LET found == SelectSeq(vocs, LAMBDA v : getLocale(v) = locale)
        dashes == {i \in 1..Len(locale) : locale[i] = "-"}
    IN  IF found # <<>>
        THEN [result |-> found[1], attempts |-> attempts]
        ELSE IF LocaleMatcher(options) # Str(Lookup)
        THEN [result |-> Null, attempts |-> attempts]
        ELSE IF dashes = {}
        THEN [result |-> Null, attempts |-> attempts]
        ELSE findVocabularyLoop_firstDash(
                 substring(locale, (CHOOSE i \in dashes : \A j \in dashes : i <= j) - 1),
                 vocs, options, attempts + 1)

findVocabulary_firstDash(requestedLocale, vocs, options) ==
    findVocabularyLoop_firstDash(requestedLocale, vocs, options, 1)

\* a findVocabulary that truncates whatever the options are
findVocabulary_alwaysLookup(requestedLocale, vocs, options) ==
    findVocabularyLoop(requestedLocale, vocs,
                       [kind |-> "object", localeMatcher |-> Str(Lookup)], 1)

\* static findVocabulary(requestedLocale, vocabularies, options)
findVocabulary(requestedLocale, vocs, options) ==
    findVocabularyLoop(requestedLocale, vocs, options, 1)

\* getVocabulariesForNamespace(namespace)
getVocabulariesForNamespace(vocs, namespace) ==
    SelectSeq(ObjectValues(vocs), LAMBDA v : getNamespace(v) = namespace)

\* getVocabulariesForLocale(locale)
getVocabulariesForLocale(vocs, locale) ==
    SelectSeq(ObjectValues(vocs), LAMBDA v : getLocale(v) = toLowerCase(locale))

\* a getVocabulary that matches the locale as given
getVocabulary_localeAsGiven(vocs, namespace, locale, options) ==
    findVocabulary(locale, getVocabulariesForNamespace(vocs, namespace), options).result

\* getVocabulary(namespace, locale, options)
getVocabulary(vocs, namespace, locale, options) ==
    findVocabulary(toLowerCase(locale), getVocabulariesForNamespace(vocs, namespace),
                   options).result

\* a getTerm that looks no further once a vocabulary exists at the locale
RECURSIVE getTermFrom_stopsAtVocabulary(_, _, _, _, _, _)
getTermFrom_stopsAtVocabulary(vocs, namespace, locale, declarationName, propertyName,
                              calls) ==
    LET voc == getVocabulary(vocs, namespace, locale, Undefined)
    IN  IF Truthy(voc)
        THEN LET term == VocGetTerm(voc, declarationName, propertyName)
             IN  [result |-> IF Truthy(term) THEN term ELSE Null, calls |-> calls]
        ELSE LET dashIndex == lastIndexOf(locale, "-")
             IN  IF dashIndex >= 0
                 THEN getTermFrom_stopsAtVocabulary(vocs, namespace,
                          substring(locale, dashIndex), declarationName, propertyName,
                          calls + 1)
                 ELSE [result |-> Null, calls |-> calls]

getTerm_stopsAtVocabulary(vocs, namespace, locale, declarationName, propertyName) ==
    getTermFrom_stopsAtVocabulary(vocs, namespace, locale, declarationName,
                                  propertyName, 1)

\* the recursion of getTerm; calls counts the invocations
RECURSIVE getTermFrom(_, _, _, _, _, _)
getTermFrom(vocs, namespace, locale, declarationName, propertyName, calls) ==
    LET voc == getVocabulary(vocs, namespace, locale, Undefined)
        term == IF Truthy(voc) THEN VocGetTerm(voc, declarationName, propertyName)
                ELSE Null
    IN  IF Truthy(term)
        THEN [result |-> term, calls |-> calls]
        ELSE LET dashIndex == lastIndexOf(locale, "-")
             IN  IF dashIndex >= 0
                 THEN getTermFrom(vocs, namespace, substring(locale, dashIndex),
                                  declarationName, propertyName, calls + 1)
                 ELSE [result |-> Null, calls |-> calls]

\* getTerm(namespace, locale, declarationName, propertyName)
getTerm(vocs, namespace, locale, declarationName, propertyName) ==
    getTermFrom(vocs, namespace, locale, declarationName, propertyName, 1)

\* the forEach of validate over Object.values(this.vocabularies)
RECURSIVE validateEach(_, _, _)
validateEach(values, modelManager, resultVocabularies) ==
    IF values = <<>> THEN resultVocabularies
    ELSE LET voc == Head(values)
             model == getModelFile(modelManager, getNamespace(voc))
             errors == VocValidate(voc, model)
             vocResult == [locale |-> getLocale(voc),
                           namespace |-> getNamespace(voc),
                           missingTerms |-> <<>> \o errors.missingTerms,
                           additionalTerms |-> <<>> \o errors.additionalTerms]
         IN  validateEach(Tail(values), modelManager,
                 IF Truthy(model)
                 THEN ObjectSet(resultVocabularies,
                                Template(vocResult.namespace, vocResult.locale), vocResult)
                 ELSE resultVocabularies)

\* a validate whose additionalVocabularies are the vocabularies of the
\* namespaces that have a model file
validate_additionalInverted(vocs, modelManager) ==
    LET files == getModelFiles(modelManager)
        missing == SelectSeq(files,
                       LAMBDA m : Len(getVocabulariesForNamespace(vocs, m.namespace)) = 0)
    IN  [missingVocabularies |-> [i \in 1..Len(missing) |-> missing[i].namespace],
         additionalVocabularies |->
             SelectSeq(ObjectValues(vocs),
                       LAMBDA v : Truthy(getModelFile(modelManager, getNamespace(v)))),
         vocabularies |-> validateEach(ObjectValues(vocs), modelManager, <<>>)]

\* validate(modelManager)
validate(vocs, modelManager) ==
    LET files == getModelFiles(modelManager)
        missing == SelectSeq(files,
                       LAMBDA m : Len(getVocabulariesForNamespace(vocs, m.namespace)) = 0)
    IN  [missingVocabularies |-> [i \in 1..Len(missing) |-> missing[i].namespace],
         additionalVocabularies |->
             SelectSeq(ObjectValues(vocs),
                       LAMBDA v : ~Truthy(getModelFile(modelManager, getNamespace(v)))),
         vocabularies |-> validateEach(ObjectValues(vocs), modelManager, <<>>)]

-----------------------------------------------------------------------------
(* the inputs of the model *)

Namespaces == {<<"n">>, <<"m">>}

\* the locales of the documents: en, EN-US, en-us-x in short
DocLocales == {<<"e">>, <<"E", "-", "U">>, <<"e", "-", "u", "-", "x">>}

\* the locales asked for
Locales == DocLocales \cup {<<"e", "-", "u">>, <<"f", "-", "u">>}

\* the declarations of a document: none, a declaration with an empty term, a
\* declaration with a term and a property with a term
DeclarationLists ==
    {<<>>,
     <<[name |-> "d", term |-> <<>>, properties |-> <<>>]>>,
     <<[name |-> "d", term |-> <<"s">>,
        properties |-> <<[name |-> <<"p">>, term |-> <<"t">>]>>]>>}

Documents ==
    [namespace : Namespaces, locale : DocLocales, declarations : DeclarationLists]

\* what a caller passes to addVocabulary: nothing, the empty string, a document
Contents == {Undefined, Str(<<>>)} \cup {Serialize(doc) : doc \in Documents}

OptionValues ==
    {Undefined,
     [kind |-> "object"],
     [kind |-> "object", localeMatcher |-> Str(Lookup)],
     [kind |-> "object", localeMatcher |-> Str(<<"b", "e", "s", "t">>)]}

\* the terms asked for: of a declaration, of a property of it, of a declaration
\* no document has
TermNames ==
    {[declarationName |-> "d", propertyName |-> Undefined],
     [declarationName |-> "d", propertyName |-> Str(<<"p">>)],
     [declarationName |-> "q", propertyName |-> Undefined]}

\* the model files: of the namespaces of the documents and of one more
ModelFiles ==
    [kind : {"modelfile"}, namespace : Namespaces \cup {<<"k">>},
     declarations : {<<"d">>, <<"q">>}]

\* the model managers: at most one model file per namespace
ModelManagers ==
    {<<>>} \cup {<<m>> : m \in ModelFiles}
           \cup {p \in ModelFiles \X ModelFiles : p[1].namespace # p[2].namespace}

\* the stores the manager can hold: what a run of addVocabulary calls builds
Stores ==
    LET Entry(doc) == [key |-> getIdentifier(Vocabulary(doc)), value |-> Vocabulary(doc)]
        Lists == UNION {[1..n -> Documents] : n \in 0..MaxEntries}
    IN  {[i \in 1..Len(l) |-> Entry(l[i])] :
            l \in {m \in Lists : \A i, j \in 1..Len(m) :
                        i # j => Entry(m[i]).key # Entry(m[j]).key}}

-----------------------------------------------------------------------------
(* the state machine: one action per method; last records the latest call *)

Call(op, args, result, error) ==
    [op |-> op, args |-> args, before |-> vocabularies, result |-> result,
     error |-> error]

Constructed ==
    [op |-> "constructor", args |-> Undefined, before |-> <<>>,
     result |-> Undefined, error |-> Ok]

Init ==
    /\ vocabularies = NewVocabularies
    /\ last = Constructed

Clear ==
    /\ vocabularies' = clear(vocabularies)
    /\ last' = Call("clear", Undefined, Undefined, Ok)

RemoveVocabulary ==
    \E namespace \in Namespaces, locale \in Locales :
        /\ vocabularies' = removeVocabulary(vocabularies, namespace, locale)
        /\ last' = Call("removeVocabulary",
                        [namespace |-> namespace, locale |-> locale], Undefined, Ok)

AddVocabulary ==
    \E contents \in Contents :
        LET r == addVocabulary(vocabularies, contents)
        IN  /\ Len(r.vocabularies) <= MaxEntries
            /\ vocabularies' = r.vocabularies
            /\ last' = Call("addVocabulary", [contents |-> contents], Undefined, r.error)

FindVocabulary ==
    \E requestedLocale \in Locales, options \in OptionValues :
        LET candidates == ObjectValues(vocabularies)
            r == findVocabulary(requestedLocale, candidates, options)
        IN  /\ last' = Call("findVocabulary",
                            [requestedLocale |-> requestedLocale,
                             vocabularies |-> candidates, options |-> options,
                             attempts |-> r.attempts],
                            r.result, Ok)
            /\ UNCHANGED vocabularies

GetTerm ==
    \E namespace \in Namespaces, locale \in Locales, name \in TermNames :
        LET r == getTerm(vocabularies, namespace, locale, name.declarationName,
                         name.propertyName)
        IN  /\ last' = Call("getTerm",
                            [namespace |-> namespace, locale |-> locale,
                             declarationName |-> name.declarationName,
                             propertyName |-> name.propertyName, calls |-> r.calls],
                            r.result, Ok)
            /\ UNCHANGED vocabularies

Validate ==
    \E modelManager \in ModelManagers :
        /\ last' = Call("validate", [modelManager |-> modelManager],
                        validate(vocabularies, modelManager), Ok)
        /\ UNCHANGED vocabularies

\* the manager under its callers: any sequence of the calls that change it
Next ==
    \/ Clear
    \/ RemoveVocabulary
    \/ AddVocabulary

Spec == Init /\ [][Next]_vars

\* a manager holding any store, for the methods that only read it
InitStore ==
    /\ vocabularies \in Stores
    /\ last = Constructed

SpecFind == InitStore /\ [][FindVocabulary]_vars

SpecTerm == InitStore /\ [][GetTerm]_vars

SpecValidate == InitStore /\ [][Validate]_vars

-----------------------------------------------------------------------------
(* what the properties are stated with *)

\* the vocabularies of a store or of a list, as a set
Entries(vocs) == {vocs[i].value : i \in 1..Len(vocs)}
Elements(list) == {list[i] : i \in 1..Len(list)}

\* two strings are equal up to letter case
EqualUpToCase(a, b) ==
    /\ Len(a) = Len(b)
    /\ \A i \in 1..Len(a) : LowerOf(a[i]) = LowerOf(b[i])

\* the truncation chain of a tag: the tag, and each of its prefixes that ends
\* right before a '-'
Chain(tag) ==
    {tag} \cup {SubSeq(tag, 1, i - 1) : i \in {j \in 1..Len(tag) : tag[j] = "-"}}

Longest(tags) == CHOOSE t \in tags : \A u \in tags : Len(u) <= Len(t)

\* the number of subtags of a tag
Subtags(tag) == 1 + Cardinality({j \in 1..Len(tag) : tag[j] = "-"})

\* the locales of the model in other letter cases
LocalesAnyCase ==
    Locales \cup {<<"E">>, <<"e", "-", "U">>, <<"E", "-", "u", "-", "X">>}

\* every store of the manager is one of Stores
StoreInStores == vocabularies \in Stores

-----------------------------------------------------------------------------
(* the store: addVocabulary, removeVocabulary, clear *)

\* C1: in every state reached by addVocabulary, removeVocabulary and clear
\* calls, every entry is stored under the key equal to its getIdentifier(), the
\* namespace, a '/' and the lowercased locale, and no two entries have the
\* same identifier.
C1_OneEntryPerIdentifier ==
    /\ \A i \in 1..Len(vocabularies) :
          /\ vocabularies[i].key = getIdentifier(vocabularies[i].value)
          /\ vocabularies[i].key =
                vocabularies[i].value.content.namespace \o <<"/">>
                    \o toLowerCase(vocabularies[i].value.content.locale)
    /\ \A i, j \in 1..Len(vocabularies) :
          i # j => getIdentifier(vocabularies[i].value)
                       # getIdentifier(vocabularies[j].value)

\* an addVocabulary of a document in upper case was refused as a duplicate, the
\* store holding two entries
C1_Witness ==
    /\ last.op = "addVocabulary"
    /\ last.error = DuplicateEntry
    /\ YAMLparse(last.args.contents).locale = <<"E", "-", "U">>
    /\ Len(vocabularies) = 2

\* the identifier of the document of an addVocabulary call is registered
Registered(vocs, contents) ==
    \E v \in Entries(vocs) :
        /\ v.content.namespace = contents.chars[1]
        /\ EqualUpToCase(v.content.locale, contents.chars[2])

\* C2: an addVocabulary call fails with InvalidArgument exactly when contents
\* is empty or absent, with DuplicateEntry exactly when the identifier of its
\* document is registered, and a call that fails leaves the store as it was.
C2_FailedAddChangesNothing ==
    last.op = "addVocabulary" =>
        LET contents == last.args.contents
            absent == contents.kind = "undefined" \/ contents.chars = <<>>
        IN  /\ last.error = InvalidArgument <=> absent
            /\ last.error = DuplicateEntry <=>
                   (~absent /\ Registered(last.before, contents))
            /\ last.error # Ok => vocabularies = last.before

\* a document with other declarations than the registered one was refused
C2_Witness ==
    /\ last.op = "addVocabulary"
    /\ last.error = DuplicateEntry
    /\ Vocabulary(YAMLparse(last.args.contents)) \notin Entries(last.before)
    /\ vocabularies = last.before

\* C6: removeVocabulary(namespace, locale) never fails; it removes the entry
\* with the key namespace/locale, leaves every other entry as it was, leaves
\* the store as it was when there is no such entry, and a second call with the
\* same arguments changes nothing.
C6_RemoveIdempotent ==
    last.op = "removeVocabulary" =>
        LET key == last.args.namespace \o <<"/">> \o last.args.locale
            kept == {i \in 1..Len(last.before) : last.before[i].key # key}
        IN  /\ last.error = Ok
            /\ Elements(vocabularies) = {last.before[i] : i \in kept}
            /\ Len(vocabularies) = Cardinality(kept)
            /\ kept = 1..Len(last.before) => vocabularies = last.before
            /\ removeVocabulary(vocabularies, last.args.namespace, last.args.locale)
                   = vocabularies

\* a removeVocabulary call removed one entry of two
C6_Witness ==
    /\ last.op = "removeVocabulary"
    /\ Len(last.before) = 2
    /\ Len(vocabularies) = 1

\* C7: after clear() the store is empty, getVocabulariesForNamespace and
\* getVocabulariesForLocale return empty sequences for every namespace and
\* locale, every document registered before the clear can be added without
\* DuplicateEntry, and a second clear() leaves the store empty.
C7_ClearEmpties ==
    last.op = "clear" =>
        /\ vocabularies = <<>>
        /\ \A namespace \in Namespaces :
              getVocabulariesForNamespace(vocabularies, namespace) = <<>>
        /\ \A locale \in LocalesAnyCase :
              getVocabulariesForLocale(vocabularies, locale) = <<>>
        /\ \A v \in Entries(last.before) :
              /\ addVocabulary(vocabularies, Serialize(v.content)).error = Ok
              /\ Entries(addVocabulary(vocabularies, Serialize(v.content)).vocabularies)
                     = {v}
        /\ clear(vocabularies) = <<>>

\* clear() was called on a store of two entries
C7_Witness ==
    /\ last.op = "clear"
    /\ Len(last.before) = 2

\* C9: every entry of the store, and so the entry of a successful
\* addVocabulary until it is removed or the store is cleared, is what
\* getVocabulary(N, L') with no options returns for every L' equal to its
\* locale L up to letter case, and its getIdentifier() is N/L with L lowercased.
C9_RoundTrip ==
    /\ last.op = "addVocabulary" /\ last.error = Ok =>
          Vocabulary(YAMLparse(last.args.contents)) \in Entries(vocabularies)
    /\ \A v \in Entries(vocabularies) :
          \A locale \in LocalesAnyCase :
              EqualUpToCase(locale, v.content.locale) =>
                  LET r == getVocabulary(vocabularies, v.content.namespace, locale,
                                         Undefined)
                  IN  /\ r = v
                      /\ getIdentifier(r) =
                             v.content.namespace \o <<"/">> \o toLowerCase(v.content.locale)

\* a document with the locale E-U was added to a store that held an entry
C9_Witness ==
    /\ last.op = "addVocabulary"
    /\ last.error = Ok
    /\ YAMLparse(last.args.contents).locale = <<"E", "-", "U">>
    /\ Len(vocabularies) = 2
    /\ getVocabulary(vocabularies, YAMLparse(last.args.contents).namespace,
                     <<"e", "-", "u">>, Undefined)
           = Vocabulary(YAMLparse(last.args.contents))

\* C10: right after removeVocabulary(namespace, locale), for a locale in any
\* letter case, getVocabulary(namespace, locale) with no options returns null
\* and getVocabulariesForLocale(locale) holds no entry of the namespace.
C10_RemoveAgreesWithLookups ==
    last.op = "removeVocabulary" =>
        /\ getVocabulary(vocabularies, last.args.namespace, last.args.locale, Undefined)
               = Null
        /\ \A v \in Elements(getVocabulariesForLocale(vocabularies, last.args.locale)) :
               getNamespace(v) # last.args.namespace

-----------------------------------------------------------------------------
(* findVocabulary *)

\* the options ask for the 'lookup' matcher
AsksLookup(options) ==
    /\ options.kind = "object"
    /\ "localeMatcher" \in DOMAIN options
    /\ options.localeMatcher.chars = <<"l", "o", "o", "k", "u", "p">>

\* the elements of the truncation chain of a tag that are the locale of a candidate
Hits(tag, candidates) ==
    {c \in Chain(tag) : \E v \in Elements(candidates) : getLocale(v) = c}

\* C3: with localeMatcher 'lookup', findVocabulary returns a candidate whose
\* locale is the longest element of the truncation chain of requestedLocale
\* that is the locale of a candidate, returns null exactly when no element of
\* the chain is, and makes at most as many attempts as the tag has subtags.
C3_LookupLongestMatch ==
    (last.op = "findVocabulary" /\ AsksLookup(last.args.options)) =>
        LET hits == Hits(last.args.requestedLocale, last.args.vocabularies)
        IN  /\ last.result = Null <=> hits = {}
            /\ hits # {} =>
                  /\ last.result \in Elements(last.args.vocabularies)
                  /\ getLocale(last.result) = Longest(hits)
            /\ last.args.attempts <= Subtags(last.args.requestedLocale)

\* a lookup of e-u-x found the candidate e-u at its second attempt, e being a
\* candidate's locale too
C3_Witness ==
    /\ last.op = "findVocabulary"
    /\ AsksLookup(last.args.options)
    /\ last.args.requestedLocale = <<"e", "-", "u", "-", "x">>
    /\ last.args.attempts = 2
    /\ last.result # Null
    /\ Hits(last.args.requestedLocale, last.args.vocabularies)
           = {<<"e", "-", "u">>, <<"e">>}

\* C4: without options, or with a localeMatcher other than 'lookup',
\* findVocabulary makes one attempt: it returns a candidate whose locale is
\* requestedLocale when there is one and null otherwise, also when a truncation
\* of requestedLocale is the locale of a candidate.
C4_ExactMatchOnly ==
    (last.op = "findVocabulary" /\ ~AsksLookup(last.args.options)) =>
        LET exact == {v \in Elements(last.args.vocabularies) :
                          getLocale(v) = last.args.requestedLocale}
        IN  /\ last.args.attempts = 1
            /\ exact # {} => last.result \in exact
            /\ exact = {} => last.result = Null

\* without 'lookup', e-u-x was not found although e is the locale of a candidate
C4_Witness ==
    /\ last.op = "findVocabulary"
    /\ ~AsksLookup(last.args.options)
    /\ last.args.requestedLocale = <<"e", "-", "u", "-", "x">>
    /\ last.result = Null
    /\ <<"e">> \in Hits(last.args.requestedLocale, last.args.vocabularies)

-----------------------------------------------------------------------------
(* getTerm *)

\* the entry of a namespace at exactly the lowercased tag
EntryAt(vocs, namespace, tag) ==
    {v \in Entries(vocs) : /\ v.content.namespace = namespace
                           /\ toLowerCase(v.content.locale) = toLowerCase(tag)}

\* what the entry of the namespace at the tag has for the declaration
TermAt(vocs, namespace, tag, declarationName, propertyName) ==
    LET v == CHOOSE e \in EntryAt(vocs, namespace, tag) : TRUE
    IN  VocGetTerm(v, declarationName, propertyName)

\* the elements of the chain at which the namespace has an entry with a term
WithTerm(vocs, a) ==
    {c \in Chain(a.locale) :
        /\ EntryAt(vocs, a.namespace, c) # {}
        /\ TermAt(vocs, a.namespace, c, a.declarationName, a.propertyName) # Null}

\* the same, an empty term counting as no term
WithNonEmptyTerm(vocs, a) ==
    {c \in WithTerm(vocs, a) :
        TermAt(vocs, a.namespace, c, a.declarationName, a.propertyName).chars # <<>>}

\* C5 as claimed: getTerm returns the term of the first locale of the
\* truncation chain at which the namespace has an entry that has the term, and
\* null when there is none, after at most one call per subtag.
C5_TermOfFirstLocaleWithTerm ==
    last.op = "getTerm" =>
        LET found == WithTerm(vocabularies, last.args)
        IN  /\ last.args.calls <= Subtags(last.args.locale)
            /\ last.error = Ok
            /\ last.result =
                  IF found = {} THEN Null
                  ELSE TermAt(vocabularies, last.args.namespace, Longest(found),
                              last.args.declarationName, last.args.propertyName)

\* C5, amended: getTerm returns the term of the first locale of the truncation
\* chain at which the namespace has an entry with a non-empty term for the
\* declaration; an entry whose term is the empty string is passed over like an
\* entry without the term; null when there is no such locale; at most one call
\* per subtag.
C5_TermOfFirstLocaleWithNonEmptyTerm ==
    last.op = "getTerm" =>
        LET found == WithNonEmptyTerm(vocabularies, last.args)
        IN  /\ last.args.calls <= Subtags(last.args.locale)
            /\ last.error = Ok
            /\ last.result =
                  IF found = {} THEN Null
                  ELSE TermAt(vocabularies, last.args.namespace, Longest(found),
                              last.args.declarationName, last.args.propertyName)

\* getTerm of e-u-x passed over an entry at e-u-x without a non-empty term and
\* returned the term of the entry at e, at its third call
C5_Witness ==
    /\ last.op = "getTerm"
    /\ last.args.locale = <<"e", "-", "u", "-", "x">>
    /\ EntryAt(vocabularies, last.args.namespace, last.args.locale) # {}
    /\ last.args.calls = 3
    /\ last.result = Str(<<"s">>)

-----------------------------------------------------------------------------
(* validate *)

\* the namespaces that have a model file
ModelNamespaces(modelManager) == {m.namespace : m \in Elements(modelManager)}

\* C8: validate returns as missingVocabularies the namespaces of the model
\* files without an entry in the store, as additionalVocabularies the entries
\* whose namespace has no model file, and in vocabularies a key
\* namespace/locale for the entries whose namespace has one; every entry is in
\* one of the two and not in both, and the store is not changed.
C8_ValidatePartition ==
    last.op = "validate" =>
        LET modelled == ModelNamespaces(last.args.modelManager)
            entries == Entries(vocabularies)
            keys == {last.result.vocabularies[i].key :
                        i \in 1..Len(last.result.vocabularies)}
            KeyOf(v) == v.content.namespace \o <<"/">> \o toLowerCase(v.content.locale)
        IN  /\ Elements(last.result.missingVocabularies) =
                  {n \in modelled : \A v \in entries : v.content.namespace # n}
            /\ Elements(last.result.additionalVocabularies) =
                  {v \in entries : v.content.namespace \notin modelled}
            /\ Len(last.result.additionalVocabularies) =
                  Cardinality(Elements(last.result.additionalVocabularies))
            /\ keys = {KeyOf(v) : v \in {e \in entries : e.content.namespace \in modelled}}
            /\ Len(last.result.vocabularies) = Cardinality(keys)
            /\ \A v \in entries :
                  (v \in Elements(last.result.additionalVocabularies))
                      <=> (KeyOf(v) \notin keys)
            /\ vocabularies = last.before
            /\ last.error = Ok

\* validate of a store with an entry whose namespace has a model file and one
\* whose namespace has none, against a model file without vocabulary
C8_Witness ==
    /\ last.op = "validate"
    /\ Len(last.result.missingVocabularies) = 1
    /\ Len(last.result.additionalVocabularies) = 1
    /\ Len(last.result.vocabularies) = 1

====
